---------------------------- MODULE Spec2Model ----------------------------
(***************************************************************************)
(* A model of anomaly-cli: the command dispatcher (src/index.ts), the      *)
(* interactive authentication flow (src/auth/index.ts) and the             *)
(* archive -> upload -> publish -> cleanup workflow                        *)
(* (src/commands/createApp.ts).                                            *)
(*                                                                         *)
(* The program is one Node.js process.  Each action below is the code that *)
(* runs between two suspension points (await / event callback); pc is the  *)
(* suspension point the process is parked at.  What the user types, what   *)
(* the identity provider, the file system, the storage service and the     *)
(* backend answer are inputs, drawn with \E from small sets.               *)
(*                                                                         *)
(* Strings that the code only measures are modelled by what it measures:   *)
(*  - an e-mail address is a sequence of characters over Alphabet;         *)
(*  - a password is its length;                                            *)
(*  - an app name is <<lead, core, trail>>: lead blanks, core non-blank    *)
(*    characters, trail blanks;                                            *)
(*  - an error message is a sequence of phrases.                           *)
(***************************************************************************)
EXTENDS Integers, Sequences, FiniteSets, TLC

(* ------------------------------ bounds --------------------------------- *)

\* Longest e-mail input typed at the prompt.
MaxEmailLen == 5

\* Longest password typed at the prompt.
MaxPwLen == 7

\* Sign-in / sign-up calls one run may make (the retry loop is unbounded).
MaxAuthCalls == 2

\* Milliseconds the model clock runs to during a publish call.
MaxClockMs == 40000

\* Milliseconds one clock tick stands for.
TickMs == 10000

\* Size in bytes of the archive that is uploaded.
TotalBytes == 3

(* ------------------------- program constants --------------------------- *)

\* setTimeout(() => controller.abort(), 30000)
TIMEOUT_MS == 30000

\* validate: value.length < 3
MinAppNameLen == 3

\* validate: value.length > 50
MaxAppNameLen == 50

\* validate: value.length >= 6
MinPasswordLen == 6

(* ------------------------------ values --------------------------------- *)

NoUser == "none"
NoErr == [name |-> "none", msg |-> <<>>]
Undefined == "undefined"

Alphabet == {"a", "@", ".", " "}

Strs(n) == UNION {[1..k -> Alphabet] : k \in 0..n}

EmailInputs == Strs(MaxEmailLen)

PwInputs == 0..MaxPwLen

\* <<lead, core, trail>>
AppNameInputs ==
    {<<l, c, t>> : l \in {0, 3}, c \in {0, 2, 3, 50, 51}, t \in {0, 1}}

StrLen(n) == n[1] + n[2] + n[3]

\* String.prototype.trim
Trim(n) == IF n[2] = 0 THEN <<0, 0, 0>> ELSE <<0, n[2], 0>>

Statuses == {200, 201, 404, 500}

StatusText(s) ==
    CASE s = 200 -> "OK"
      [] s = 201 -> "Created"
      [] s = 404 -> "Not Found"
      [] OTHER   -> "Internal Server Error"

\* The phrases that contain the substring "fetch".
FetchPhrases == {"fetch failed", "could not fetch record"}

\* Response bodies, as text (read by response.text()).
TextBodies == {<<>>, <<"quota exceeded">>, <<"could not fetch record">>}

\* Response bodies, as JSON (read by response.json()); an invalid body makes
\* json() reject.
JsonBodies ==
    { [valid |-> FALSE, appId |-> Undefined],
      [valid |-> TRUE,  appId |-> Undefined],
      [valid |-> TRUE,  appId |-> ""],
      [valid |-> TRUE,  appId |-> "abc123"] }

NoBody == [valid |-> FALSE, appId |-> "none"]

AuthErrorCodes == {"auth/wrong-password", "auth/email-already-in-use", "auth/other"}


(* ------------------------ prompt responses ----------------------------- *)

\* What a prompt of the "prompts" library resolves to: a submitted value, or
\* nothing at all when the prompt is dismissed (the field is undefined).
Submitted(v) == [given |-> TRUE, val |-> v]
Dismissed(v) == [given |-> FALSE, val |-> v]

EmailResponses == {Submitted(e) : e \in EmailInputs} \cup {Dismissed(<<>>)}

PwResponses == {Submitted(n) : n \in PwInputs} \cup {Dismissed(0)}

AppNameResponses == {Submitted(n) : n \in AppNameInputs} \cup {Dismissed(<<0, 0, 0>>)}

SelectResponses == {"signin", "signup", "exit", Undefined}

ConfirmResponses == {"yes", "no", Undefined}

(* --------------------------- src/auth/index.ts ------------------------- *)

\* [^\s@]
NotSpaceNorAt(c) == c \notin {" ", "@"}

\* /^[^\s@]+@[^\s@]+\.[^\s@]+$/.test(value)
emailRegexTest(s) ==
    \E i \in 1..Len(s), j \in 1..Len(s) :
        /\ 1 < i /\ i + 1 < j /\ j < Len(s)
        /\ s[i] = "@"
        /\ s[j] = "."
        /\ \A k \in (1..Len(s)) \ {i} : NotSpaceNorAt(s[k])

\* validate of the e-mail prompt: TRUE, or the message shown.
ValidateEmail(s) ==
    IF emailRegexTest(s) THEN "true" ELSE "Please enter a valid email address"

\* validate of the password prompt.
ValidatePasswordLoose(n) ==
    IF n + 1 >= MinPasswordLen THEN "true" ELSE "Password must be at least 6 characters"

ValidatePassword(n) ==
    IF n >= MinPasswordLen THEN "true" ELSE "Password must be at least 6 characters"

\* if (!email) / if (!password)
NoEmail(r) == ~r.given \/ Len(r.val) = 0

NoPassword(r) == ~r.given \/ r.val = 0

getAuthErrorMessage(errorCode) ==
    CASE errorCode = "auth/user-not-found"       -> "No account found with this email address."
      [] errorCode = "auth/wrong-password"       -> "Incorrect password."
      [] errorCode = "auth/email-already-in-use" -> "An account with this email already exists."
      [] errorCode = "auth/weak-password"        -> "Password should be at least 6 characters."
      [] errorCode = "auth/invalid-email"        -> "Invalid email address."
      [] errorCode = "auth/too-many-requests"    -> "Too many failed attempts. Please try again later."
      [] OTHER                                   -> "Authentication failed. Please try again."

\* if (retry)
ShouldRetryAlways(r) == TRUE

ShouldRetry(r) == r = "yes"

(* ----------------------- src/commands/createApp.ts --------------------- *)

\* validate of the app-name prompt.
ValidateAppNameStrict(v) ==
    IF StrLen(v) < MinAppNameLen THEN "App name must be at least 3 characters long"
    ELSE IF StrLen(v) >= MaxAppNameLen THEN "App name must be less than 50 characters"
    ELSE "true"

ValidateAppName(v) ==
    IF StrLen(v) < MinAppNameLen THEN "App name must be at least 3 characters long"
    ELSE IF StrLen(v) > MaxAppNameLen THEN "App name must be less than 50 characters"
    ELSE "true"

\* if (!appNameResponse.appName)
AppNameCancelledNever(r) == FALSE

AppNameCancelled(r) == ~r.given \/ StrLen(r.val) = 0

\* response.ok
ResponseOk(status) == status >= 200 /\ status <= 299

\* if (!appId)
AppIdMissingNever(id) == FALSE

AppIdMissing(id) == id = Undefined \/ id = ""

MissingAppIdMsg == <<"Deployment service did not return a valid app ID">>

\* `Deployment service error (${response.status}): ${errorMessage}`
BackendErrorMsg(status, detail) ==
    <<"Deployment service error", ToString(status)>> \o detail

TimeoutMsg ==
    <<"Request timed out after 30 seconds - please check your internet connection">>

UnreachableMsg ==
    <<"Unable to reach deployment service - please verify your internet connection">>

Error(name, msg) == [name |-> name, msg |-> msg]

\* error.message.includes("fetch")
IncludesFetch(msg) == \E i \in 1..Len(msg) : msg[i] \in FetchPhrases

\* The catch block of createAppInBackend: the error it rethrows.
PublishCatch(e) ==
    IF e.name = "AbortError" THEN Error("Error", TimeoutMsg)
    ELSE IF IncludesFetch(e.msg) THEN Error("Error", UnreachableMsg)
    ELSE Error("Error", <<"Deployment request failed:">> \o e.msg)

\* if (!progressSpinner)
NeedsSpinnerAlways(spinner) == TRUE

NeedsSpinner(spinner) == ~spinner

\* Math.round((bytesTransferred / totalBytes) * 100)
RoundedPercent(transferred, total) == (200 * transferred + total) \div (2 * total)

(* ------------------------------ src/index.ts --------------------------- *)

\* if (currentUser) in requireAuth
HasSessionAlways(u) == TRUE

HasSession(u) == u # NoUser

\* The uncaughtException handler: the status it exits with.
UncaughtExitAlwaysZero(e) == 0

UncaughtExit(e) == IF e.name = "ExitPromptError" THEN 0 ELSE 1

(* ------------------------------- state --------------------------------- *)

VARIABLES
    pc,              \* the suspension point the process is parked at
    exitCode,        \* -1 while the process runs, then its exit status
    fault,           \* the error being propagated, NoErr when none
    validationMsg,   \* the validation message the current prompt shows, "" when none
    cmd,             \* the subcommand that was dispatched
    providerUser,    \* the identity provider's persisted session
    currentUser,     \* index.ts: let currentUser
    paAction,        \* promptAuthentication: action
    email,           \* promptCredentials: email
    pwLen,           \* promptCredentials: password (its length)
    signInCalls,     \* calls of AuthManager.signIn
    signUpCalls,     \* calls of AuthManager.signUp
    authOK,          \* calls of signIn / signUp the provider accepted
    retryYes,        \* times the user answered yes to "try again?"
    retryAnswer,     \* the last answer to "try again?", "none" before any
    credPrompted,    \* whether an authentication prompt was shown
    paReturned,      \* the session promptAuthentication returned
    user,            \* createApp: user
    appNameResponse, \* what the app-name prompt resolved to: none, dismissed, submitted
    nameTyped,       \* the last value submitted at the app-name prompt
    appName,         \* createApp: appName (after trim)
    entered,         \* the workflow stages entered so far
    zipPromise,      \* the promise of createZipFile: none, pending, resolved, rejected
    archiveFault,    \* the I/O error that hit createZipFile: none, source, dest
    zipExists,       \* whether tempZipPath exists on disk
    cleanupRan,      \* whether fs.unlink(tempZipPath) was called
    dashboardUrl,    \* the app id of the dashboard URL printed, "" when none
    outcome,         \* how createApp ended: none, cancelled, success, failure
    bytesTransferred,\* uploadToFirebase: snapshot.bytesTransferred
    progressSpinner, \* uploadToFirebase: whether progressSpinner is set
    pctShown,        \* the percentage in the spinner text, -1 when none
    spinnersCreated, \* how many progress spinners ora() has created
    uploadState,     \* the promise of uploadToFirebase: none, pending, resolved, rejected
    clock,           \* milliseconds since the publish request was sent
    timerArmed,      \* whether the abort timer is pending
    aborted,         \* controller.signal.aborted
    respStatus,      \* response.status, 0 while there is no response
    respBody,        \* the JSON body response.json() was given, NoBody before
    requests,        \* the bodies of the POST requests sent
    pubErr,          \* the error createAppInBackend threw, NoErr when none
    appId,           \* the app id createAppInBackend returned, Undefined when none
    sourceTree,      \* the files under process.cwd(), as paths relative to it
    zipEntries       \* the entry names of the archive written, {} before

procVars == <<cmd, providerUser, currentUser>>

authVars ==
    <<paAction, email, pwLen, signInCalls, signUpCalls, authOK, retryYes,
      retryAnswer, credPrompted, paReturned>>

caVars ==
    <<user, appNameResponse, nameTyped, appName, entered, zipPromise, archiveFault,
      zipExists, cleanupRan, dashboardUrl, outcome>>

upVars ==
    <<bytesTransferred, progressSpinner, pctShown, spinnersCreated, uploadState>>

pubVars ==
    <<clock, timerArmed, aborted, respStatus, respBody, requests, pubErr, appId>>

zipVars == <<sourceTree, zipEntries>>

vars ==
    <<pc, exitCode, fault, validationMsg, procVars, authVars, caVars, upVars, pubVars,
      zipVars>>

\* path.basename(process.cwd())
projectName == "proj"

\* `${projectName}-${Date.now()}.zip`
zipFileName == "proj-1700000000000.zip"

(* ------------------------- the archive's content ----------------------- *)

\* A path is the sequence of its segments.  The names that begin with a dot:
DotNames == {".git", ".env", ".bin", ".hidden"}

\* The files a source directory may hold, relative to it.
Files ==
    { <<".git", "config">>,
      <<"node_modules", "pkg", "index.js">>,
      <<"node_modules", ".bin", "tsc">>,
      <<"dist", "out.js">>,
      <<".env">>,
      <<"README.md">>,
      <<"src", "a.ts">>,
      <<"src", ".hidden">>,
      <<"packages", "node_modules", "dep.js">> }

\* Whether a wildcard may stand for this name: names that begin with a dot
\* need the dot option.
WildcardTakes(name, dot) == dot \/ name \notin DotNames

\* Whether a path matches a glob, segment by segment.  "**" stands for any
\* number of directories (all the rest when it comes last, but at least one
\* segment), "*" for one name, any other segment for itself.
RECURSIVE GlobMatch(_, _, _)
GlobMatch(pat, path, dot) ==
    IF pat = <<>> THEN path = <<>>
    ELSE IF path = <<>> THEN FALSE
    ELSE IF Head(pat) = "**"
         THEN IF Len(pat) = 1
              THEN \A i \in DOMAIN path : WildcardTakes(path[i], dot)
              ELSE \/ GlobMatch(Tail(pat), path, dot)
                   \/ /\ WildcardTakes(Head(path), dot)
                      /\ GlobMatch(pat, Tail(path), dot)
    ELSE IF Head(pat) = "*"
         THEN WildcardTakes(Head(path), dot) /\ GlobMatch(Tail(pat), Tail(path), dot)
    ELSE Head(pat) = Head(path) /\ GlobMatch(Tail(pat), Tail(path), dot)

\* archive.glob("**/*", { ..., dot: true }, ...)
GlobPattern == <<"**", "*">>

GlobDot == TRUE

\* The ignore list of the earlier createZipFile.
IgnoreGlobsOld == { <<"node_modules", "**">>, <<".git", "**">> }

\* ignore: ["node_modules/**", ".git/**", "dist/**", zipFileName]
IgnoreGlobs ==
    { <<"node_modules", "**">>, <<".git", "**">>, <<"dist", "**">>, <<zipFileName>> }

\* Ignore globs are matched with the dot option on, against the path
\* relative to cwd.
Ignored(path) == \E g \in IgnoreGlobs : GlobMatch(g, path, TRUE)

\* The entry names of the archive made from a directory holding these
\* files: every match that is not ignored, under the prefix.
ArchiveEntries(tree) ==
    { <<projectName>> \o f :
        f \in { g \in tree : GlobMatch(GlobPattern, g, GlobDot) /\ ~Ignored(g) } }

Init ==
    /\ pc = "start"
    /\ exitCode = -1
    /\ fault = NoErr
    /\ validationMsg = ""
    /\ cmd = "none"
    /\ providerUser \in {NoUser, "u1"}
    /\ currentUser = NoUser
    /\ paAction = "none"
    /\ email = <<>>
    /\ pwLen = 0
    /\ signInCalls = 0
    /\ signUpCalls = 0
    /\ authOK = 0
    /\ retryYes = 0
    /\ retryAnswer = "none"
    /\ credPrompted = FALSE
    /\ paReturned = NoUser
    /\ user = NoUser
    /\ appNameResponse = "none"
    /\ nameTyped = Dismissed(<<0, 0, 0>>)
    /\ appName = <<0, 0, 0>>
    /\ entered = {}
    /\ zipPromise = "none"
    /\ archiveFault = "none"
    /\ zipExists = FALSE
    /\ cleanupRan = FALSE
    /\ dashboardUrl = ""
    /\ outcome = "none"
    /\ bytesTransferred = 0
    /\ progressSpinner = FALSE
    /\ pctShown = -1
    /\ spinnersCreated = 0
    /\ uploadState = "none"
    /\ clock = 0
    /\ timerArmed = FALSE
    /\ aborted = FALSE
    /\ respStatus = 0
    /\ respBody = NoBody
    /\ requests = <<>>
    /\ pubErr = NoErr
    /\ appId = Undefined
    /\ sourceTree = Files
    /\ zipEntries = {}

\* createApp parked at createZipFile with the name "abc", run by a signed-in
\* user in a directory holding any of the files.
InitZip ==
    /\ pc = "caArchiving"
    /\ exitCode = -1
    /\ fault = NoErr
    /\ validationMsg = ""
    /\ cmd = "init"
    /\ providerUser = "u1"
    /\ currentUser = "u1"
    /\ paAction = "none"
    /\ email = <<>>
    /\ pwLen = 0
    /\ signInCalls = 0
    /\ signUpCalls = 0
    /\ authOK = 0
    /\ retryYes = 0
    /\ retryAnswer = "none"
    /\ credPrompted = FALSE
    /\ paReturned = NoUser
    /\ user = "u1"
    /\ appNameResponse = "submitted"
    /\ nameTyped = Submitted(<<0, 3, 0>>)
    /\ appName = <<0, 3, 0>>
    /\ entered = {"archiving"}
    /\ zipPromise = "pending"
    /\ archiveFault = "none"
    /\ zipExists = FALSE
    /\ cleanupRan = FALSE
    /\ dashboardUrl = ""
    /\ outcome = "none"
    /\ bytesTransferred = 0
    /\ progressSpinner = FALSE
    /\ pctShown = -1
    /\ spinnersCreated = 0
    /\ uploadState = "none"
    /\ clock = 0
    /\ timerArmed = FALSE
    /\ aborted = FALSE
    /\ respStatus = 0
    /\ respBody = NoBody
    /\ requests = <<>>
    /\ pubErr = NoErr
    /\ appId = Undefined
    /\ sourceTree \in SUBSET Files
    /\ zipEntries = {}

(* --------------------------- process endings --------------------------- *)

\* process.exit(code), or the event loop running empty (code 0).
Exit(code) ==
    /\ pc' = "exited"
    /\ exitCode' = code

\* An error leaves the init action: program.parse() drops the action's
\* promise, the rejection is unhandled and Node (>= 15) raises it as an
\* uncaught exception.
Throw(e) ==
    /\ pc' = "uncaught"
    /\ fault' = e
    /\ UNCHANGED exitCode

\* createApp is entered: the app-name prompt is shown.
EnterCreateApp(u) ==
    /\ user' = u
    /\ entered' = entered \cup {"createApp"}
    /\ pc' = "caPrompt"
    /\ UNCHANGED <<exitCode, appNameResponse, nameTyped, appName, zipPromise,
                   archiveFault, zipExists, cleanupRan, dashboardUrl, outcome,
                   zipVars>>

(* ------------------------------ src/index.ts --------------------------- *)

\* anomaly info
CmdInfo ==
    /\ pc = "start"
    /\ cmd' = "info"
    /\ Exit(0)
    /\ UNCHANGED <<fault, validationMsg, providerUser, currentUser, authVars, caVars,
                   upVars, pubVars, zipVars>>

\* anomaly auth status
CmdAuthStatus ==
    /\ pc = "start"
    /\ cmd' = "status"
    /\ Exit(0)
    /\ UNCHANGED <<fault, validationMsg, providerUser, currentUser, authVars, caVars,
                   upVars, pubVars, zipVars>>

\* anomaly auth login
CmdAuthLogin ==
    /\ pc = "start"
    /\ cmd' = "login"
    /\ pc' = "paChoose"
    /\ UNCHANGED <<exitCode, fault, validationMsg, providerUser, currentUser,
                   authVars, caVars, upVars, pubVars, zipVars>>

\* anomaly auth logout: signOut succeeds, or fails and the error is logged.
CmdAuthLogout ==
    /\ pc = "start"
    /\ cmd' = "logout"
    /\ \E ok \in BOOLEAN :
        /\ providerUser' = IF ok THEN NoUser ELSE providerUser
        /\ currentUser' = IF ok THEN NoUser ELSE currentUser
    /\ Exit(0)
    /\ UNCHANGED <<fault, validationMsg, authVars, caVars, upVars, pubVars, zipVars>>

\* anomaly init: requireAuth probes the provider, then createApp or the
\* authentication flow.
CmdInit ==
    /\ pc = "start"
    /\ cmd' = "init"
    /\ currentUser' = providerUser
    /\ IF HasSession(providerUser)
       THEN EnterCreateApp(providerUser)
       ELSE /\ pc' = "paChoose"
            /\ UNCHANGED <<exitCode, caVars>>
    /\ UNCHANGED <<fault, validationMsg, providerUser, authVars, upVars, pubVars,
                   zipVars>>

\* process.on("uncaughtException", ...)
UncaughtException ==
    /\ pc = "uncaught"
    /\ Exit(UncaughtExit(fault))
    /\ UNCHANGED <<fault, validationMsg, procVars, authVars, caVars, upVars, pubVars,
                   zipVars>>

(* --------------------------- src/auth/index.ts ------------------------- *)

AuthCalls == signInCalls + signUpCalls

PromptPcs == {"paChoose", "paEmail", "paPassword", "paRetry", "caPrompt"}

\* promptAuthentication returns u to its caller: the login action, or
\* requireAuth on behalf of the init action.  Its locals (action and the
\* credentials) end with the call.
PAReturn(u) ==
    /\ paReturned' = u
    /\ currentUser' = u
    /\ paAction' = "none"
    /\ email' = <<>>
    /\ pwLen' = 0
    /\ IF cmd = "login"
       THEN Exit(0) /\ UNCHANGED caVars
       ELSE EnterCreateApp(u)

\* promptAuthentication (or a prompt inside it) throws e: the login action
\* catches and logs it, the init action lets it escape.
PAThrow(e) ==
    IF cmd = "login"
    THEN Exit(0) /\ fault' = e
    ELSE Throw(e)

\* The select prompt of promptAuthentication.
PASelect ==
    /\ pc = "paChoose"
    /\ \E a \in SelectResponses :
        /\ paAction' = a
        /\ IF a = "exit"
           THEN Exit(0) /\ UNCHANGED credPrompted
           ELSE /\ pc' = "paEmail"
                /\ credPrompted' = TRUE
                /\ UNCHANGED exitCode
    /\ validationMsg' = ""
    /\ UNCHANGED <<fault, procVars, email, pwLen, signInCalls, signUpCalls, authOK,
                   retryYes, retryAnswer, paReturned, caVars, upVars, pubVars,
                   zipVars>>

\* The e-mail prompt of promptCredentials.
PAEmail ==
    /\ pc = "paEmail"
    /\ \E r \in EmailResponses :
        IF r.given /\ ValidateEmail(r.val) # "true"
        THEN /\ validationMsg' = ValidateEmail(r.val)
             /\ UNCHANGED <<pc, exitCode, email>>
        ELSE /\ validationMsg' = ""
             /\ IF NoEmail(r)
                THEN Exit(0) /\ UNCHANGED email
                ELSE /\ email' = r.val
                     /\ pc' = "paPassword"
                     /\ UNCHANGED exitCode
    /\ UNCHANGED <<fault, procVars, paAction, pwLen, signInCalls, signUpCalls, authOK,
                   retryYes, retryAnswer, credPrompted, paReturned, caVars, upVars,
                   pubVars, zipVars>>

\* The password prompt of promptCredentials.
PAPassword ==
    /\ pc = "paPassword"
    /\ \E r \in PwResponses :
        IF r.given /\ ValidatePassword(r.val) # "true"
        THEN /\ validationMsg' = ValidatePassword(r.val)
             /\ UNCHANGED <<pc, exitCode, pwLen>>
        ELSE /\ validationMsg' = ""
             /\ IF NoPassword(r)
                THEN Exit(0) /\ UNCHANGED pwLen
                ELSE /\ pwLen' = r.val
                     /\ pc' = "paCall"
                     /\ UNCHANGED exitCode
    /\ UNCHANGED <<fault, procVars, paAction, email, signInCalls, signUpCalls, authOK,
                   retryYes, retryAnswer, credPrompted, paReturned, caVars, upVars,
                   pubVars, zipVars>>

\* signIn / signUp is called with the credentials and the provider accepts.
PACallOk ==
    /\ pc = "paCall"
    /\ IF paAction = "signin"
       THEN signInCalls' = signInCalls + 1 /\ UNCHANGED signUpCalls
       ELSE signUpCalls' = signUpCalls + 1 /\ UNCHANGED signInCalls
    /\ authOK' = authOK + 1
    /\ providerUser' = "u1"
    /\ PAReturn("u1")
    /\ UNCHANGED <<fault, validationMsg, cmd, retryYes, retryAnswer, credPrompted,
                   upVars, pubVars, zipVars>>

\* signIn / signUp is called and the provider refuses: the catch block
\* prints the message and asks whether to try again.
PACallFail ==
    /\ pc = "paCall"
    /\ IF paAction = "signin"
       THEN signInCalls' = signInCalls + 1 /\ UNCHANGED signUpCalls
       ELSE signUpCalls' = signUpCalls + 1 /\ UNCHANGED signInCalls
    /\ \E code \in AuthErrorCodes :
        fault' = Error("Error", <<getAuthErrorMessage(code)>>)
    /\ pc' = "paRetry"
    /\ UNCHANGED <<exitCode, validationMsg, procVars, paAction, email, pwLen, authOK,
                   retryYes, retryAnswer, credPrompted, paReturned, caVars, upVars,
                   pubVars, zipVars>>

\* The confirm prompt "Would you like to try again?"; on yes the caught
\* error is done with and promptAuthentication calls itself, with fresh
\* locals.
PARetry ==
    /\ pc = "paRetry"
    /\ \E r \in ConfirmResponses :
        /\ retryAnswer' = r
        /\ retryYes' = IF r = "yes" THEN retryYes + 1 ELSE retryYes
        /\ IF ShouldRetry(r)
           THEN /\ AuthCalls < MaxAuthCalls
                /\ pc' = "paChoose"
                /\ paAction' = "none"
                /\ email' = <<>>
                /\ pwLen' = 0
                /\ fault' = NoErr
                /\ UNCHANGED exitCode
           ELSE Exit(0) /\ UNCHANGED <<fault, paAction, email, pwLen>>
    /\ UNCHANGED <<validationMsg, procVars, signInCalls, signUpCalls, authOK,
                   credPrompted, paReturned, caVars, upVars, pubVars, zipVars>>

\* The user interrupts a prompt of the authentication flow: the prompt
\* throws ExitPromptError, the error index.ts and createApp.ts test for.
PAInterrupt ==
    /\ pc \in PromptPcs \ {"caPrompt"}
    /\ PAThrow(Error("ExitPromptError", <<"User force closed the prompt">>))
    /\ validationMsg' = ""
    /\ UNCHANGED <<procVars, authVars, caVars, upVars, pubVars, zipVars>>

(* ----------------------- src/commands/createApp.ts --------------------- *)

\* createApp returns normally: the init action ends and the process exits
\* with status 0 once the event loop is empty.
CAReturn(how) ==
    /\ outcome' = how
    /\ Exit(0)

\* The outer catch block of createApp: an ExitPromptError is swallowed,
\* anything else is logged and rethrown.
CACatch(e) ==
    IF e.name = "ExitPromptError"
    THEN CAReturn("cancelled") /\ fault' = e
    ELSE outcome' = "failure" /\ Throw(e)

\* The app-name prompt, and on an accepted name the start of createZipFile.
CAPromptName ==
    /\ pc = "caPrompt"
    /\ \E r \in AppNameResponses :
        IF r.given /\ ValidateAppName(r.val) # "true"
        THEN /\ validationMsg' = ValidateAppName(r.val)
             /\ nameTyped' = r
             /\ UNCHANGED <<pc, exitCode, appNameResponse, appName, entered,
                            zipPromise, outcome>>
        ELSE /\ validationMsg' = ""
             /\ appNameResponse' = IF r.given THEN "submitted" ELSE "dismissed"
             /\ nameTyped' = IF r.given THEN r ELSE nameTyped
             /\ IF AppNameCancelled(r)
                THEN CAReturn("cancelled") /\ UNCHANGED <<appName, entered, zipPromise>>
                ELSE /\ appName' = Trim(r.val)
                     /\ entered' = entered \cup {"archiving"}
                     /\ zipPromise' = "pending"
                     /\ pc' = "caArchiving"
                     /\ UNCHANGED <<exitCode, outcome>>
    /\ UNCHANGED <<fault, procVars, authVars, user, archiveFault, zipExists,
                   cleanupRan, dashboardUrl, upVars, pubVars, zipVars>>

\* The user interrupts the app-name prompt: the outer catch block runs.
CAInterrupt ==
    /\ pc = "caPrompt"
    /\ CACatch(Error("ExitPromptError", <<"User force closed the prompt">>))
    /\ validationMsg' = ""
    /\ UNCHANGED <<procVars, authVars, user, appNameResponse, nameTyped, appName,
                   entered, zipPromise, archiveFault, zipExists, cleanupRan,
                   dashboardUrl, upVars, pubVars, zipVars>>

\* createZipFile: the output stream closes, the promise resolves, and
\* uploadToFirebase starts reading the archive.  The archive holds what the
\* glob selected from the source directory, in which the archive file
\* itself lies.
ArchiveClose ==
    /\ pc = "caArchiving"
    /\ zipPromise' = "resolved"
    /\ zipEntries' = ArchiveEntries(sourceTree \cup {<<zipFileName>>})
    /\ zipExists' = TRUE
    /\ entered' = entered \cup {"uploading"}
    /\ uploadState' = "pending"
    /\ pc' = "caUploadRead"
    /\ UNCHANGED <<exitCode, fault, validationMsg, procVars, authVars, user,
                   appNameResponse, nameTyped, appName, archiveFault, cleanupRan,
                   dashboardUrl, outcome, bytesTransferred, progressSpinner, pctShown,
                   spinnersCreated, pubVars, sourceTree>>

\* createZipFile: the archiver emits "error" (an unreadable source file), the
\* promise rejects, createApp rethrows from the first try block and from the
\* outer catch block.  The output stream may have created the file already.
ArchiveError ==
    /\ pc = "caArchiving"
    /\ archiveFault' = "source"
    /\ zipPromise' = "rejected"
    /\ zipExists' \in BOOLEAN
    /\ CACatch(Error("Error", <<"EACCES: permission denied">>))
    /\ UNCHANGED <<validationMsg, procVars, authVars, user, appNameResponse,
                   nameTyped, appName, entered, cleanupRan, dashboardUrl, upVars,
                   pubVars, zipVars>>

\* createZipFile: the output stream emits "error" (a write failure).  No
\* listener is registered for it, so it is raised as an uncaught exception
\* while the promise of createZipFile stays pending.
ArchiveWriteError ==
    /\ pc = "caArchiving"
    /\ archiveFault' = "dest"
    /\ zipExists' \in BOOLEAN
    /\ Throw(Error("Error", <<"ENOSPC: no space left on device">>))
    /\ UNCHANGED <<validationMsg, procVars, authVars, user, appNameResponse,
                   nameTyped, appName, entered, zipPromise, cleanupRan, dashboardUrl,
                   outcome, upVars, pubVars, zipVars>>

\* createApp going on to publish without awaiting the upload.
UploadReadNoWait ==
    /\ pc = "caUploadRead"
    /\ entered' = entered \cup {"publishing"}
    /\ pc' = "pubToken"
    /\ UNCHANGED <<exitCode, fault, validationMsg, procVars, authVars, user,
                   appNameResponse, nameTyped, appName, zipPromise, archiveFault,
                   zipExists, cleanupRan, dashboardUrl, outcome, upVars, pubVars,
                   zipVars>>

\* uploadToFirebase: fs.readFile resolves and uploadBytesResumable starts.
UploadRead ==
    /\ pc = "caUploadRead"
    /\ pc' = "caUploading"
    /\ UNCHANGED <<exitCode, fault, validationMsg, procVars, authVars, caVars, upVars,
                   pubVars, zipVars>>

\* uploadToFirebase: fs.readFile rejects, the promise rejects and the
\* finally block of createApp runs next.
UploadReadFail ==
    /\ pc = "caUploadRead"
    /\ fault' = Error("Error", <<"EIO: i/o error, read">>)
    /\ uploadState' = "rejected"
    /\ pc' = "caCleanup"
    /\ UNCHANGED <<exitCode, validationMsg, procVars, authVars, caVars,
                   bytesTransferred, progressSpinner, pctShown, spinnersCreated,
                   pubVars, zipVars>>

\* uploadToFirebase: a state_changed event; bytesTransferred never goes
\* back.  The first event creates the spinner, later ones set its text.
UploadProgress ==
    /\ pc = "caUploading"
    /\ \E b \in bytesTransferred..TotalBytes :
        /\ bytesTransferred' = b
        /\ pctShown' = RoundedPercent(b, TotalBytes)
    /\ progressSpinner' = TRUE
    /\ spinnersCreated' =
           IF NeedsSpinner(progressSpinner) THEN spinnersCreated + 1 ELSE spinnersCreated
    /\ UNCHANGED <<pc, exitCode, fault, validationMsg, procVars, authVars, caVars,
                   uploadState, pubVars, zipVars>>

\* uploadToFirebase: the error observer runs.
UploadError ==
    /\ pc = "caUploading"
    /\ fault' = Error("FirebaseError", <<"storage/unauthorized">>)
    /\ uploadState' = "rejected"
    /\ pc' = "caCleanup"
    /\ UNCHANGED <<exitCode, validationMsg, procVars, authVars, caVars,
                   bytesTransferred, progressSpinner, pctShown, spinnersCreated,
                   pubVars, zipVars>>

\* uploadToFirebase: the completion observer runs, the promise resolves and
\* createAppInBackend asks for the id token.  The storage SDK reports the
\* last chunk as a state_changed event before it completes the task.
UploadComplete ==
    /\ pc = "caUploading"
    /\ bytesTransferred = TotalBytes
    /\ uploadState' = "resolved"
    /\ entered' = entered \cup {"publishing"}
    /\ pc' = "pubToken"
    /\ UNCHANGED <<exitCode, fault, validationMsg, procVars, authVars, user,
                   appNameResponse, nameTyped, appName, zipPromise, archiveFault,
                   zipExists, cleanupRan, dashboardUrl, outcome, bytesTransferred,
                   progressSpinner, pctShown, spinnersCreated, pubVars, zipVars>>

(* ------------------------- createAppInBackend -------------------------- *)

\* createAppInBackend throws: its catch block rewrites the error, and the
\* finally block of createApp runs next.
PublishFail(e) ==
    /\ pubErr' = PublishCatch(e)
    /\ fault' = PublishCatch(e)
    /\ pc' = "caCleanup"

\* getIdToken resolves: the abort timer is armed and the request is sent.
PublishSend ==
    /\ pc = "pubToken"
    /\ timerArmed' = TRUE
    /\ clock' = 0
    /\ requests' = Append(requests, [fileName |-> zipFileName, appName |-> appName])
    /\ pc' = "pubFetch"
    /\ UNCHANGED <<exitCode, fault, validationMsg, procVars, authVars, caVars, upVars,
                   aborted, respStatus, respBody, pubErr, appId, zipVars>>

\* getIdToken rejects.
PublishTokenFail ==
    /\ pc = "pubToken"
    /\ PublishFail(Error("FirebaseError", <<"Firebase: Error (auth/user-token-expired).">>))
    /\ UNCHANGED <<exitCode, validationMsg, procVars, authVars, caVars, upVars, clock,
                   timerArmed, aborted, respStatus, respBody, requests, appId,
                   zipVars>>

\* Time passes while the request is in flight or the response body is read.
\* A timer that is due fires before time passes further.
Tick ==
    /\ pc \in {"pubFetch", "pubJson", "pubText"}
    /\ ~(timerArmed /\ clock >= TIMEOUT_MS)
    /\ clock + TickMs <= MaxClockMs
    /\ clock' = clock + TickMs
    /\ UNCHANGED <<pc, exitCode, fault, validationMsg, procVars, authVars, caVars,
                   upVars, timerArmed, aborted, respStatus, respBody, requests,
                   pubErr, appId, zipVars>>

\* The abort timer fires: controller.abort() makes fetch reject with an
\* AbortError.
TimerFire ==
    /\ pc = "pubFetch"
    /\ timerArmed
    /\ clock >= TIMEOUT_MS
    /\ timerArmed' = FALSE
    /\ aborted' = TRUE
    /\ PublishFail(Error("AbortError", <<"This operation was aborted">>))
    /\ UNCHANGED <<exitCode, validationMsg, procVars, authVars, caVars, upVars, clock,
                   respStatus, respBody, requests, appId, zipVars>>

\* fetch rejects without a response (DNS failure, connection refused).
NetworkFail ==
    /\ pc = "pubFetch"
    /\ PublishFail(Error("TypeError", <<"fetch failed">>))
    /\ UNCHANGED <<exitCode, validationMsg, procVars, authVars, caVars, upVars, clock,
                   timerArmed, aborted, respStatus, respBody, requests, appId,
                   zipVars>>

\* fetch resolves with a response: the timer is cleared and the body is
\* read, as JSON when response.ok and as text otherwise.
ResponseArrives ==
    /\ pc = "pubFetch"
    /\ \E status \in Statuses :
        /\ respStatus' = status
        /\ pc' = IF ResponseOk(status) THEN "pubJson" ELSE "pubText"
    /\ timerArmed' = FALSE
    /\ UNCHANGED <<exitCode, fault, validationMsg, procVars, authVars, caVars, upVars,
                   clock, aborted, respBody, requests, pubErr, appId, zipVars>>

\* response.json() settles on a 2xx response.
JsonRead ==
    /\ pc = "pubJson"
    /\ \E body \in JsonBodies :
        /\ respBody' = body
        /\ IF ~body.valid
           THEN /\ PublishFail(Error("SyntaxError", <<"Unexpected token < in JSON">>))
                /\ UNCHANGED <<appId, dashboardUrl>>
           ELSE IF AppIdMissing(body.appId)
           THEN /\ PublishFail(Error("Error", MissingAppIdMsg))
                /\ UNCHANGED <<appId, dashboardUrl>>
           ELSE /\ appId' = body.appId
                /\ dashboardUrl' = body.appId
                /\ pc' = "caCleanup"
                /\ UNCHANGED <<fault, pubErr>>
    /\ UNCHANGED <<exitCode, validationMsg, procVars, authVars, user, appNameResponse,
                   nameTyped, appName, entered, zipPromise, archiveFault, zipExists,
                   cleanupRan, outcome, upVars, clock, timerArmed, aborted,
                   respStatus, requests, zipVars>>

\* response.text() settles on a non-2xx response: the body text, or the
\* status line when the body cannot be read.
TextRead ==
    /\ pc = "pubText"
    /\ \E detail \in TextBodies \cup {<<StatusText(respStatus)>>} :
        PublishFail(Error("Error", BackendErrorMsg(respStatus, detail)))
    /\ UNCHANGED <<exitCode, validationMsg, procVars, authVars, caVars, upVars, clock,
                   timerArmed, aborted, respStatus, respBody, requests, appId,
                   zipVars>>

(* ------------------------------ cleanup -------------------------------- *)

\* The finally block of createApp: fs.unlink(tempZipPath) succeeds or fails
\* (a warning is printed); then createApp completes, or the outer catch
\* block gets the pending error.
Cleanup ==
    /\ pc = "caCleanup"
    /\ cleanupRan' = TRUE
    /\ \E unlinked \in BOOLEAN :
        zipExists' = IF unlinked THEN FALSE ELSE zipExists
    /\ IF fault = NoErr
       THEN CAReturn("success") /\ UNCHANGED fault
       ELSE CACatch(fault)
    /\ UNCHANGED <<validationMsg, procVars, authVars, user, appNameResponse,
                   nameTyped, appName, entered, zipPromise, archiveFault,
                   dashboardUrl, upVars, pubVars, zipVars>>

(* --------------------------- specification ----------------------------- *)

Next ==
    \/ CmdInfo
    \/ CmdAuthStatus
    \/ CmdAuthLogin
    \/ CmdAuthLogout
    \/ CmdInit
    \/ UncaughtException
    \/ PASelect
    \/ PAEmail
    \/ PAPassword
    \/ PACallOk
    \/ PACallFail
    \/ PARetry
    \/ PAInterrupt
    \/ CAPromptName
    \/ CAInterrupt
    \/ ArchiveClose
    \/ ArchiveError
    \/ ArchiveWriteError
    \/ UploadRead
    \/ UploadReadFail
    \/ UploadProgress
    \/ UploadError
    \/ UploadComplete
    \/ PublishSend
    \/ PublishTokenFail
    \/ Tick
    \/ TimerFire
    \/ NetworkFail
    \/ ResponseArrives
    \/ JsonRead
    \/ TextRead
    \/ Cleanup

Spec == Init /\ [][Next]_vars

\* createZipFile alone, over every source directory.
NextZip ==
    \/ ArchiveClose
    \/ ArchiveError
    \/ ArchiveWriteError

SpecZip == InitZip /\ [][NextZip]_vars

(* ------------------------------ properties ----------------------------- *)

AuthPcs == {"paChoose", "paEmail", "paPassword", "paCall", "paRetry"}

PublishPcs == {"pubToken", "pubFetch", "pubJson", "pubText"}

WorkStages == {"archiving", "uploading", "publishing"}

\* C1: every run of createApp that entered the Archiving stage and has ended
\* has executed the cleanup step (fs.unlink of the archive), whatever the
\* exit path.
C1_CleanupOnEveryExit ==
    ("archiving" \in entered /\ outcome # "none") => cleanupRan

\* C2: once a run that got past the app-name prompt has ended, the
\* temporary archive file does not exist on disk.
C2_NoArchiveLeftBehind ==
    ("archiving" \in entered /\ pc = "exited") => ~zipExists

\* C3: when the app-name prompt returns empty input, createApp ends without
\* error: no stage is entered, no archive file exists, no publish request was
\* sent, and the process has exited with status 0.
C3_CancelIsClean ==
    appNameResponse = "dismissed" =>
        /\ entered \cap WorkStages = {}
        /\ ~zipExists
        /\ requests = <<>>
        /\ outcome = "cancelled"
        /\ fault = NoErr
        /\ pc = "exited"
        /\ exitCode = 0

C3_Witness ==
    /\ appNameResponse = "dismissed"
    /\ "createApp" \in entered
    /\ pc = "exited"

IsMissingAppId(e) == \E i \in 1..Len(e.msg) : e.msg[i] = MissingAppIdMsg[1]

\* C4: after a 2xx response whose JSON body has no appId or an empty one,
\* publish has failed with the missing-app-id error, no dashboard URL is
\* reported and the workflow ends in failure (exit status 1); after a 2xx
\* response with a non-empty appId, publish returned exactly that appId.
C4_AppIdDecidesPublish ==
    (respBody.valid /\ ResponseOk(respStatus)) =>
        IF respBody.appId \in {Undefined, ""}
        THEN /\ IsMissingAppId(pubErr)
             /\ appId = Undefined
             /\ dashboardUrl = ""
             /\ outcome \in {"none", "failure"}
             /\ (pc = "exited" => outcome = "failure" /\ exitCode = 1)
        ELSE /\ appId = respBody.appId
             /\ pubErr = NoErr
             /\ dashboardUrl = respBody.appId

C4_Witness ==
    /\ respBody.valid
    /\ respBody.appId = ""
    /\ respStatus = 201
    /\ pc = "exited"

CarriesStatus(e, status) ==
    \E i \in 1..Len(e.msg) :
        /\ e.msg[i] = "Deployment service error"
        /\ i < Len(e.msg)
        /\ e.msg[i + 1] = ToString(status)

\* C5: a non-2xx response always makes publish fail with the backend error
\* carrying the status, never with Unreachable or RequestTimeout, and
\* Unreachable is reported only when there was no response at all.
C5_FailuresClassifiedByCause ==
    /\ (respStatus # 0 /\ ~ResponseOk(respStatus) /\ pubErr # NoErr) =>
           /\ CarriesStatus(pubErr, respStatus)
           /\ pubErr.msg # UnreachableMsg
           /\ pubErr.msg # TimeoutMsg
    /\ pubErr.msg = UnreachableMsg => respStatus = 0

\* C6: whenever more than 30 seconds have passed since the request was sent
\* and the response had not been received and read by then, the request was
\* aborted and publish failed with RequestTimeout.
C6_TimeoutBoundsPublish ==
    clock > TIMEOUT_MS => (aborted /\ pubErr.msg = TimeoutMsg)

\* C7: createApp is started only by the init command and only with a
\* session; the authentication flow is run only when the probe found no
\* session, and then createApp gets the session that flow returned after a
\* successful sign-in or sign-up.
C7_CreateAppNeedsSession ==
    /\ "createApp" \in entered =>
           /\ cmd = "init"
           /\ user # NoUser
           /\ user = currentUser
    /\ (cmd = "init" /\ pc \in AuthPcs) => currentUser = NoUser
    /\ ("createApp" \in entered /\ credPrompted) =>
           /\ user = paReturned
           /\ authOK >= 1
    /\ ("createApp" \in entered /\ ~credPrompted) => AuthCalls = 0

C7_Witness ==
    /\ "createApp" \in entered
    /\ credPrompted
    /\ user = "u1"

\* C8: the process exits with status 0 when the command succeeded or the
\* user cancelled, and with status 1 when createApp failed during init; an
\* ExitPromptError never gives a non-zero status, and status 1 is only ever
\* the result of a fault that is not an ExitPromptError.
C8_ExitStatus ==
    pc = "exited" =>
        /\ exitCode \in {0, 1}
        /\ outcome = "failure" => exitCode = 1
        /\ outcome \in {"success", "cancelled"} => exitCode = 0
        /\ cmd \in {"info", "status", "login", "logout"} => exitCode = 0
        /\ fault.name = "ExitPromptError" => exitCode = 0
        /\ exitCode = 1 => fault.name \notin {"none", "ExitPromptError"}

C8_Witness ==
    /\ pc = "exited"
    /\ outcome = "failure"
    /\ "publishing" \in entered
    /\ exitCode = 1

\* C9: a sign-in or sign-up call is repeated only after the user accepted a
\* retry; a failed call that was not followed by an accepted retry leaves the
\* flow at the retry prompt or the process ended; after a declined retry the
\* process has exited with status 0; and the flow returns a session only
\* after a call the provider accepted.
C9_RetryIsUsersChoice ==
    /\ AuthCalls <= retryYes + 1
    /\ retryYes <= AuthCalls - authOK
    /\ (AuthCalls - authOK > retryYes) => pc \in {"paRetry", "exited", "uncaught"}
    /\ retryAnswer \in {"no", Undefined} => (pc = "exited" /\ exitCode = 0)
    /\ paReturned # NoUser => authOK >= 1

C9_Witness ==
    /\ AuthCalls = 2
    /\ retryYes = 1
    /\ paReturned = "u1"

\* The simple e-mail pattern, stated on the string: no blank, exactly one
\* "@", not in first place, and a "." after it that neither follows it
\* directly nor ends the string.
MatchesEmailPattern(s) ==
    LET ats == {i \in 1..Len(s) : s[i] = "@"} IN
        /\ Cardinality(ats) = 1
        /\ \A i \in 1..Len(s) : s[i] # " "
        /\ \A a \in ats : a > 1 /\ \E j \in (a + 2)..(Len(s) - 1) : s[j] = "."

\* C10: signIn / signUp is called only with an e-mail that matches the
\* pattern and a password of at least 6 characters; a rejected input leaves
\* the flow at the same prompt; and leaving a credentials prompt by exiting
\* gives status 0 and no sign-in or sign-up call.
C10_CredentialsValidatedFirst ==
    [][ /\ (AuthCalls' > AuthCalls) =>
               (pc = "paCall" /\ MatchesEmailPattern(email) /\ pwLen >= 6)
        /\ (pc = "paEmail" /\ pc' = "paPassword") => MatchesEmailPattern(email')
        /\ (pc = "paPassword" /\ pc' = "paCall") => pwLen' >= 6
        /\ (pc \in {"paEmail", "paPassword"} /\ validationMsg' # "") => pc' = pc
        /\ (pc \in {"paEmail", "paPassword"} /\ pc' = "exited") =>
               (exitCode' = 0 /\ AuthCalls' = AuthCalls) ]_vars

C10_Witness ==
    /\ pc = "paRetry"
    /\ signInCalls = 1
    /\ MatchesEmailPattern(email)
    /\ pwLen >= 6

\* C11: the app-name prompt accepts every submitted value of length 3 to 50
\* (the workflow proceeds to archiving with it) and rejects every value of
\* length below 3 or above 50: the prompt stays open with a validation
\* message and the workflow does not proceed.
C11_AppNameLengthRule ==
    nameTyped.given =>
        IF StrLen(nameTyped.val) >= 3 /\ StrLen(nameTyped.val) <= 50
        THEN /\ appNameResponse = "submitted"
             /\ "archiving" \in entered
             /\ appName = Trim(nameTyped.val)
        ELSE /\ appNameResponse # "submitted"
             /\ "archiving" \notin entered
             /\ pc = "caPrompt" => validationMsg # ""

C11_Witness ==
    /\ nameTyped = Submitted(<<0, 50, 0>>)
    /\ pc = "caArchiving"

Distance(a, b) == IF a >= b THEN a - b ELSE b - a

\* C12: while bytesTransferred rises to totalBytes, the percentage shown is
\* the ratio bytesTransferred / totalBytes * 100 rounded to the nearest
\* integer, it lies within 0..100, it never decreases, and it is exactly 100
\* once the upload has completed; the first progress event creates the one
\* progress indicator and every later event updates that same indicator, so
\* no second indicator is ever created.
C12_ProgressPercent ==
    /\ [](/\ pctShown \in -1..100
          /\ progressSpinner <=> spinnersCreated = 1
          /\ spinnersCreated <= 1
          /\ progressSpinner =>
                /\ pctShown \in 0..100
                /\ 2 * Distance(pctShown * TotalBytes, 100 * bytesTransferred)
                       <= TotalBytes
          /\ uploadState = "resolved" => pctShown = 100)
    /\ [][pctShown' >= pctShown]_vars

C12_Witness ==
    /\ uploadState = "resolved"
    /\ pctShown = 100
    /\ spinnersCreated = 1

ExcludedDirs == {".git", "node_modules", "dist"}

UnderExcludedDir(path) == Len(path) >= 2 /\ path[1] \in ExcludedDirs

C14_ArchiveFailureRejects ==
    archiveFault # "none" =>
        /\ zipPromise = "rejected"
        /\ "uploading" \notin entered
        /\ "publishing" \notin entered

StagePcs(stage) ==
    CASE stage = "archiving" -> {"caArchiving"}
      [] stage = "uploading" -> {"caUploadRead", "caUploading"}
      [] stage = "publishing" -> PublishPcs

StageStarts(stage) == pc \notin StagePcs(stage) /\ pc' \in StagePcs(stage)

StagesInProgress ==
    {stage \in WorkStages :
        \/ stage = "archiving" /\ zipPromise = "pending"
        \/ stage = "uploading" /\ uploadState = "pending"
        \/ stage = "publishing" /\ pc \in PublishPcs}

\* C15: the stages run in sequence and at most once: uploading has started
\* only if createZipFile resolved, publishing has started only if the upload
\* promise resolved after the last byte was transferred, the run has ended in
\* success only if publishing returned an app id and all three stages were
\* run, at most one stage is in progress at any time, and a stage that was
\* entered is never started again.
C15_StagesInSequence ==
    /\ [](/\ "uploading" \in entered => zipPromise = "resolved"
          /\ "publishing" \in entered =>
                uploadState = "resolved" /\ bytesTransferred = TotalBytes
          /\ outcome = "success" =>
                appId # Undefined /\ pubErr = NoErr /\ WorkStages \subseteq entered
          /\ Cardinality(StagesInProgress) <= 1)
    /\ [][\A stage \in WorkStages :
             StageStarts(stage) => stage \notin entered /\ stage \in entered']_vars

C15_Witness ==
    /\ outcome = "success"
    /\ WorkStages \subseteq entered
    /\ appId # Undefined

\* C16: every app name sent to the backend in the body of a publish request
\* has a length of 3 to 50 characters.
C16_SentNameWithinRule ==
    \A i \in DOMAIN requests :
        /\ StrLen(requests[i].appName) >= MinAppNameLen
        /\ StrLen(requests[i].appName) <= MaxAppNameLen

CredentialPcs == {"paEmail", "paPassword", "paCall"}

\* C17: signUp is called only when Create Account was chosen and signIn only
\* when Sign In was chosen; when the choice prompt was dismissed without a
\* selection, no credentials are requested and no call is made.
C17_CallsFollowTheChoice ==
    /\ [](paAction = Undefined => pc \notin CredentialPcs)
    /\ [][/\ signUpCalls' # signUpCalls => paAction = "signup"
          /\ signInCalls' # signInCalls => paAction = "signin"]_vars

=============================================================================
